---- MODULE Spec2Model ----
(***************************************************************************)
(* Model of core/types/data_blob.go: the SSZ codec of blobs, KZG           *)
(* commitments and their lists, the versioned hash, the deep copies, the   *)
(* ordered validation checkWrapping and the typed encoding encodeTyped.    *)
(*                                                                         *)
(* Byte arrays are sequences of naturals below 256 (1-based: Go index i is *)
(* TLA+ index i+1).  A Go slice is a record of its backing array and its   *)
(* length; where aliasing matters (the copies) it is a pointer into a heap.*)
(***************************************************************************)
EXTENDS Naturals, Sequences, FiniteSets

VARIABLES
    \* ComputeVersionedHash
    hgiven, hkzg, hres, hprev, hcalls,
    \* checkWrapping
    inner, wrap, cres, verifyCall, cpc,
    \* Serialize / Deserialize
    ckind, csrc, wire, dst, derr, lastOp, dstWasFresh,
    \* copy
    mem, orig, clone, expOrig, expClone, writes, copied,
    \* encodeTyped
    etx, ewrap, wfail, eout, eerr, epc

hashVars  == <<hgiven, hkzg, hres, hprev, hcalls>>
checkVars == <<inner, wrap, cres, verifyCall, cpc>>
codecVars == <<ckind, csrc, wire, dst, derr, lastOp, dstWasFresh>>
copyVars  == <<mem, orig, clone, expOrig, expClone, writes, copied>>
encVars   == <<etx, ewrap, wfail, eout, eerr, epc>>
vars      == <<hashVars, checkVars, codecVars, copyVars, encVars>>

----------------------------------------------------------------------------
(* Bounds of the model and constants of the program *)

\* params.FieldElementsPerBlob, scaled down (4096 in the protocol)
FieldElementsPerBlob == 2
\* params.MaxBlobsPerTx
MaxBlobsPerTx == 2
\* longest list drawn as an input
MaxLen == 3
\* writes applied after a copy
MaxWrites == 2

KZGCommitmentSize == 48
BLSFieldElementSize == 32
HashLength == 32
BLOB_COMMITMENT_VERSION_KZG == 1
MAX_TX_WRAP_KZG_COMMITMENTS == 16777216
LIMIT_BLOBS_PER_TX == 16777216

----------------------------------------------------------------------------
(* Byte arrays *)

Min(a, b) == IF a < b THEN a ELSE b

Zeros(n) == [i \in 1..n |-> 0]

OneHot(n, p, v) == [i \in 1..n |-> IF i = p THEN v ELSE 0]

\* the concatenation of a sequence of byte strings
RECURSIVE Flatten(_)
Flatten(ss) == IF ss = <<>> THEN <<>> ELSE Head(ss) \o Flatten(Tail(ss))

\* KZGCommitment values used as inputs
ZeroKzg == Zeros(KZGCommitmentSize)
\* the point at infinity: compression and infinity flags, all else zero
InfinityKzg == OneHot(KZGCommitmentSize, 1, 192)
\* the compressed generator of G1
GeneratorKzg ==
    <<151, 241, 211, 167, 49, 151, 215, 148, 38, 149, 99, 140, 79, 169, 172, 15,
      195, 104, 140, 79, 151, 116, 185, 5, 161, 78, 58, 63, 23, 27, 172, 88,
      108, 85, 232, 63, 249, 122, 26, 239, 251, 58, 240, 10, 219, 34, 198, 187>>

\* BLSFieldElement values used as inputs (little-endian)
ZeroFr == Zeros(BLSFieldElementSize)
\* the field modulus r: the smallest value out of range
ModulusFr ==
    <<1, 0, 0, 0, 255, 255, 255, 255, 254, 91, 254, 255, 2, 164, 189, 83,
      5, 216, 161, 9, 8, 216, 57, 51, 72, 125, 157, 41, 83, 167, 237, 115>>
\* r - 1: the largest value in range
ModulusMinusOneFr == [ModulusFr EXCEPT ![1] = 0]
\* marker values: what the writes after a copy store, and what a
\* destination held before a decode
MarkFr == OneHot(BLSFieldElementSize, 2, 77)
MarkKzg == OneHot(KZGCommitmentSize, 48, 77)

----------------------------------------------------------------------------
(* crypto.Keccak256Hash: a 32-byte digest of the bytes.  The permutation   *)
(* itself is outside the file; a mixing function stands for it, so that    *)
(* the digest depends on the input and its byte 0 is not the version tag.  *)
Keccak256Hash(bytes) ==
    [i \in 1..HashLength |->
        (bytes[i] + 3 * bytes[i + 16] + 5 * bytes[((i * 7) % Len(bytes)) + 1]
            + 17 * i) % 256]

\* h[0] is left as the digest's
ComputeVersionedHash_NoTag(kzg) == Keccak256Hash(kzg)

\* func (kzg KZGCommitment) ComputeVersionedHash() common.Hash
ComputeVersionedHash(kzg) ==
    LET h == Keccak256Hash(kzg)
    IN  [h EXCEPT ![1] = BLOB_COMMITMENT_VERSION_KZG]

----------------------------------------------------------------------------
(* Errors: fmt.Errorf values, kept as their kind and the numbers printed *)

Err(kind, a, b) == [kind |-> kind, a |-> a, b |-> b]
NoError == Err("nil", 0, 0)

----------------------------------------------------------------------------
(* Extraction of the crypto material *)

\* bls.FromCompressedG1 on the commitments the model draws: the compression
\* flag must be set; with the infinity flag the rest must be zero; otherwise
\* x must be the abscissa of a point of the subgroup
FromCompressedG1(bytes) ==
    IF bytes[1] < 128 THEN [ok |-> FALSE, point |-> <<>>]
    ELSE IF (bytes[1] \div 64) % 2 = 1
         THEN [ok |-> bytes = InfinityKzg, point |-> <<>>]
         ELSE [ok |-> bytes = GeneratorKzg, point |-> bytes]

\* func (p *KZGCommitment) Point() (*bls.G1Point, error)
Point(p) == FromCompressedG1(p)

\* a < b for little-endian byte arrays, compared from byte i down
RECURSIVE LessLE(_, _, _)
LessLE(a, b, i) ==
    IF i = 0 THEN FALSE
    ELSE IF a[i] # b[i] THEN a[i] < b[i]
    ELSE LessLE(a, b, i - 1)

\* bls.FrFrom32: false when the value is not below the modulus
FrFrom32(v) == LessLE(v, ModulusFr, BLSFieldElementSize)

\* func (li BlobKzgs) Commitments() ([]*bls.G1Point, error)
RECURSIVE Commitments(_)
Commitments(li) ==
    IF li = <<>> THEN [err |-> FALSE, points |-> <<>>]
    ELSE LET p == Point(Head(li))
         IN  IF ~p.ok THEN [err |-> TRUE, points |-> <<>>]
             ELSE LET rest == Commitments(Tail(li))
                  IN  IF rest.err THEN rest
                      ELSE [err |-> FALSE, points |-> <<p.point>> \o rest.points]

\* the inner loop of Blobs(): one blob's chunks parsed into Fr
RECURSIVE BlobFr(_)
BlobFr(b) ==
    IF b = <<>> THEN [err |-> FALSE, frs |-> <<>>]
    ELSE IF ~FrFrom32(Head(b)) THEN [err |-> TRUE, frs |-> <<>>]
    ELSE LET rest == BlobFr(Tail(b))
         IN  IF rest.err THEN rest
             ELSE [err |-> FALSE, frs |-> <<Head(b)>> \o rest.frs]

\* the chunks are taken without the range check
RECURSIVE BlobsFr_NoRange(_)
BlobsFr_NoRange(blobs) ==
    IF blobs = <<>> THEN [err |-> FALSE, result |-> <<>>]
    ELSE [err |-> FALSE,
          result |-> <<Head(blobs)>> \o BlobsFr_NoRange(Tail(blobs)).result]

\* func (blobs Blobs) Blobs() ([][]bls.Fr, error)
RECURSIVE BlobsFr(_)
BlobsFr(blobs) ==
    IF blobs = <<>> THEN [err |-> FALSE, result |-> <<>>]
    ELSE LET b == BlobFr(Head(blobs))
         IN  IF b.err THEN [err |-> TRUE, result |-> <<>>]
             ELSE LET rest == BlobsFr(Tail(blobs))
                  IN  IF rest.err THEN rest
                      ELSE [err |-> FALSE, result |-> <<b.frs>> \o rest.result]

\* kzg.VerifyBlobs: the batch verification, whose outcome the model draws
VerifyBlobs(commitments, blobs, ok) ==
    IF ok THEN NoError ELSE Err("PairingVerificationFailed", 0, 0)

----------------------------------------------------------------------------
(* checkWrapping *)

\* the variant of TxData that carries BlobVersionedHashes
SignedBlobTx == "SignedBlobTx"

\* the loop reports the last mismatch instead of stopping at the first
RECURSIVE mismatchIndex_Last(_, _, _)
mismatchIndex_Last(hashes, kzgs, i) ==
    IF i > Len(hashes) THEN 0
    ELSE LET later == mismatchIndex_Last(hashes, kzgs, i + 1)
         IN  IF later # 0 THEN later
             ELSE IF ComputeVersionedHash(kzgs[i]) # hashes[i] THEN i ELSE 0

\* for i, h := range BlobVersionedHashes: the first i (1-based, from i on)
\* whose computed versioned hash differs from h; 0 when there is none
RECURSIVE mismatchIndex(_, _, _)
mismatchIndex(hashes, kzgs, i) ==
    IF i > Len(hashes) THEN 0
    ELSE IF ComputeVersionedHash(kzgs[i]) # hashes[i] THEN i
    ELSE mismatchIndex(hashes, kzgs, i + 1)

\* what follows the length checks: the hash loop and the two extractions
checkContents(hashes, b) ==
    LET m == mismatchIndex(hashes, b.BlobKzgs, 1)
    IN  IF m # 0 THEN Err("VersionedHashMismatch", m - 1, 0)
        ELSE IF Commitments(b.BlobKzgs).err THEN Err("PointInvalid", 0, 0)
        ELSE IF BlobsFr(b.Blobs).err THEN Err("ScalarOutOfRange", 0, 0)
        ELSE NoError

\* the kzgs are compared with the versioned hashes before the blobs
checkWrappingChecks_Swapped(tx, b) ==
    LET hashes == tx.BlobVersionedHashes
    IN  IF tx.type # SignedBlobTx THEN Err("NotBlobTx", 0, 0)
        ELSE IF Len(hashes) > MaxBlobsPerTx
             THEN Err("TooManyBlobs", Len(hashes), MaxBlobsPerTx)
        ELSE IF Len(b.BlobKzgs) # Len(hashes)
             THEN Err("CountMismatchKzgsHashes", Len(b.BlobKzgs), Len(hashes))
        ELSE IF Len(b.BlobKzgs) # Len(b.Blobs)
             THEN Err("CountMismatchKzgsBlobs", Len(b.BlobKzgs), Len(b.Blobs))
        ELSE checkContents(hashes, b)

\* the limit on the number of blobs is tested after the two count checks
checkWrappingChecks_LimitLast(tx, b) ==
    LET hashes == tx.BlobVersionedHashes
    IN  IF tx.type # SignedBlobTx THEN Err("NotBlobTx", 0, 0)
        ELSE IF Len(b.BlobKzgs) # Len(b.Blobs)
             THEN Err("CountMismatchKzgsBlobs", Len(b.BlobKzgs), Len(b.Blobs))
        ELSE IF Len(b.BlobKzgs) # Len(hashes)
             THEN Err("CountMismatchKzgsHashes", Len(b.BlobKzgs), Len(hashes))
        ELSE IF Len(hashes) > MaxBlobsPerTx
             THEN Err("TooManyBlobs", Len(hashes), MaxBlobsPerTx)
        ELSE checkContents(hashes, b)

\* checkWrapping up to the call of kzg.VerifyBlobs: the first error, or nil
checkWrappingChecks(tx, b) ==
    LET hashes == tx.BlobVersionedHashes
    IN  IF tx.type # SignedBlobTx THEN Err("NotBlobTx", 0, 0)
        ELSE IF Len(hashes) > MaxBlobsPerTx
             THEN Err("TooManyBlobs", Len(hashes), MaxBlobsPerTx)
        ELSE IF Len(b.BlobKzgs) # Len(b.Blobs)
             THEN Err("CountMismatchKzgsBlobs", Len(b.BlobKzgs), Len(b.Blobs))
        ELSE IF Len(b.BlobKzgs) # Len(hashes)
             THEN Err("CountMismatchKzgsHashes", Len(b.BlobKzgs), Len(hashes))
        ELSE checkContents(hashes, b)

NotCalled == [called |-> FALSE, commitments |-> <<>>, blobs |-> <<>>,
              result |-> NoError]

\* func (b *BlobTxWrapData) checkWrapping(inner TxData) error
checkWrapping ==
    /\ cpc = "start"
    /\ \E ok \in BOOLEAN :
        LET pre == checkWrappingChecks(inner, wrap)
            commitments == Commitments(wrap.BlobKzgs).points
            blobs == BlobsFr(wrap.Blobs).result
            res == VerifyBlobs(commitments, blobs, ok)
        IN  IF pre # NoError
            THEN /\ cres' = pre
                 /\ verifyCall' = NotCalled
            ELSE /\ cres' = res
                 /\ verifyCall' = [called |-> TRUE, commitments |-> commitments,
                                   blobs |-> blobs, result |-> res]
    /\ cpc' = "done"
    /\ UNCHANGED <<inner, wrap>>
    /\ UNCHANGED <<hashVars, codecVars, copyVars, encVars>>

----------------------------------------------------------------------------
(* Inputs *)

\* all sequences over S of length at most n
SeqsUpTo(S, n) == UNION {[1..k -> S] : k \in 0..n}

CheckKzgs == {GeneratorKzg, ZeroKzg}

\* a declared hash that is the versioned hash of no commitment drawn
WrongHash == [ComputeVersionedHash(GeneratorKzg) EXCEPT ![HashLength] = (@ + 1) % 256]

CheckHashes == {ComputeVersionedHash(k) : k \in CheckKzgs} \cup {WrongHash}

\* a blob of scalars in range, and one whose last scalar is the modulus
GoodBlob == [i \in 1..FieldElementsPerBlob |->
                IF i = 1 THEN ModulusMinusOneFr ELSE ZeroFr]
BadBlob == [i \in 1..FieldElementsPerBlob |->
                IF i = FieldElementsPerBlob THEN ModulusFr ELSE ZeroFr]
CheckBlobs == {GoodBlob, BadBlob}

WrapDatas == [BlobKzgs : SeqsUpTo(CheckKzgs, MaxLen), Blobs : SeqsUpTo(CheckBlobs, MaxLen)]

\* the transactions: blob transactions, and one of another variant
TxDatas ==
    [type : {SignedBlobTx}, BlobVersionedHashes : SeqsUpTo(CheckHashes, MaxLen)]
        \cup {[type |-> "DynamicFeeTx", BlobVersionedHashes |-> <<>>]}

hashIdle == /\ hgiven = ZeroKzg /\ hkzg = ZeroKzg /\ hres = <<>> /\ hprev = <<>> /\ hcalls = 0
checkIdle ==
    /\ inner = [type |-> "DynamicFeeTx", BlobVersionedHashes |-> <<>>]
    /\ wrap = [BlobKzgs |-> <<>>, Blobs |-> <<>>]
    /\ cres = NoError /\ verifyCall = NotCalled /\ cpc = "idle"
codecIdle ==
    /\ ckind = "none" /\ csrc = <<>> /\ wire = <<>> /\ dst = <<>>
    /\ derr = FALSE /\ lastOp = "idle" /\ dstWasFresh = FALSE
copyIdle ==
    /\ mem = <<>> /\ orig = <<>> /\ clone = <<>> /\ expOrig = <<>>
    /\ expClone = <<>> /\ writes = 0 /\ copied = FALSE
encIdle ==
    /\ etx = [type |-> "DynamicFeeTx", BlobVersionedHashes |-> <<>>]
    /\ ewrap = [BlobKzgs |-> <<>>, Blobs |-> <<>>]
    /\ wfail = 0 /\ eout = <<>> /\ eerr = NoError /\ epc = "idle"

----------------------------------------------------------------------------
(* Specification of checkWrapping: any wrap data against any transaction *)

InitCheck ==
    /\ inner \in TxDatas
    /\ wrap \in WrapDatas
    /\ cres = NoError /\ verifyCall = NotCalled /\ cpc = "start"
    /\ hashIdle /\ codecIdle /\ copyIdle /\ encIdle

NextCheck == checkWrapping

SpecCheck == InitCheck /\ [][NextCheck]_vars

\* the conditions of the seven steps, stated on the inputs
hashesOf == inner.BlobVersionedHashes
Viol1 == Len(hashesOf) > MaxBlobsPerTx
Viol2 == Len(wrap.BlobKzgs) # Len(wrap.Blobs)
Viol3 == Len(wrap.BlobKzgs) # Len(hashesOf)
MismatchAt(i) == ComputeVersionedHash(wrap.BlobKzgs[i]) # hashesOf[i]
Viol4 == \E i \in 1..Min(Len(wrap.BlobKzgs), Len(hashesOf)) : MismatchAt(i)
Viol5 == \E i \in 1..Len(wrap.BlobKzgs) : ~Point(wrap.BlobKzgs[i]).ok
Viol6 == \E i \in 1..Len(wrap.Blobs) :
            \E j \in 1..Len(wrap.Blobs[i]) : ~FrFrom32(wrap.Blobs[i][j])

LowestStep ==
    IF Viol1 THEN 1 ELSE IF Viol2 THEN 2 ELSE IF Viol3 THEN 3
    ELSE IF Viol4 THEN 4 ELSE IF Viol5 THEN 5 ELSE IF Viol6 THEN 6 ELSE 7

StepKinds == <<{"TooManyBlobs"}, {"CountMismatchKzgsBlobs"}, {"CountMismatchKzgsHashes"},
               {"VersionedHashMismatch"}, {"PointInvalid"}, {"ScalarOutOfRange"},
               {"nil", "PairingVerificationFailed"}>>

isBlobTx == inner.type = SignedBlobTx
checked == cpc = "done" /\ isBlobTx

\* C1: for a blob transaction checkWrapping returns the error of the
\* lowest-numbered failing step, with the counts it compared, and the batch
\* verification is invoked only when steps 1 to 6 pass, its result being
\* returned unchanged.
C1_FirstFailingCheckWins ==
    checked =>
        /\ cres.kind \in StepKinds[LowestStep]
        /\ LowestStep = 1 => cres = Err("TooManyBlobs", Len(hashesOf), MaxBlobsPerTx)
        /\ LowestStep = 2 =>
            cres = Err("CountMismatchKzgsBlobs", Len(wrap.BlobKzgs), Len(wrap.Blobs))
        /\ LowestStep = 3 =>
            cres = Err("CountMismatchKzgsHashes", Len(wrap.BlobKzgs), Len(hashesOf))
        /\ LowestStep < 7 => ~verifyCall.called
        /\ LowestStep = 7 => verifyCall.called /\ cres = verifyCall.result

\* an input that violates steps 1, 2, 3 and 6 at once is answered TooManyBlobs
C1_Witness ==
    /\ checked /\ Viol1 /\ Viol2 /\ Viol3 /\ Viol6
    /\ cres.kind = "TooManyBlobs"

\* C2: whenever checkWrapping returns nil, the three lengths agree and are at
\* most MaxBlobsPerTx, every versioned hash matches, every commitment
\* decompressed, every scalar is below the modulus, and the batch verification
\* was called on the index-aligned points and scalar vectors and returned nil.
C2_AcceptedIsConsistent ==
    (cpc = "done" /\ cres = NoError) =>
        /\ isBlobTx
        /\ Len(wrap.BlobKzgs) = Len(wrap.Blobs)
        /\ Len(wrap.BlobKzgs) = Len(hashesOf)
        /\ Len(hashesOf) <= MaxBlobsPerTx
        /\ \A i \in 1..Len(hashesOf) : ~MismatchAt(i)
        /\ \A i \in 1..Len(wrap.BlobKzgs) : Point(wrap.BlobKzgs[i]).ok
        /\ \A i \in 1..Len(wrap.Blobs) :
            \A j \in 1..Len(wrap.Blobs[i]) : FrFrom32(wrap.Blobs[i][j])
        /\ verifyCall.called
        /\ verifyCall.result = NoError
        /\ Len(verifyCall.commitments) = Len(wrap.BlobKzgs)
        /\ Len(verifyCall.blobs) = Len(wrap.Blobs)
        /\ \A i \in 1..Len(wrap.BlobKzgs) :
            /\ verifyCall.commitments[i] = Point(wrap.BlobKzgs[i]).point
            /\ verifyCall.blobs[i] = wrap.Blobs[i]

\* a wrap data of MaxBlobsPerTx blobs is accepted
C2_Witness ==
    /\ cpc = "done" /\ cres = NoError
    /\ Len(hashesOf) = MaxBlobsPerTx /\ MaxBlobsPerTx >= 1

\* C3: when steps 1 to 3 pass and some declared hash differs from the
\* versioned hash of its commitment, the error is VersionedHashMismatch with
\* the smallest such index.
C3_SmallestMismatchIndex ==
    (checked /\ ~Viol1 /\ ~Viol2 /\ ~Viol3 /\ Viol4) =>
        /\ cres.kind = "VersionedHashMismatch"
        /\ MismatchAt(cres.a + 1)
        /\ \A i \in 1..cres.a : ~MismatchAt(i)

\* hashes 0 and 1 are both wrong and index 0 is reported
C3_Witness ==
    /\ checked /\ ~Viol1 /\ ~Viol2 /\ ~Viol3
    /\ Len(hashesOf) >= 2 /\ MismatchAt(1) /\ MismatchAt(2)
    /\ cres = Err("VersionedHashMismatch", 0, 0)

\* C4 as stated: commitment and blob counts that differ give
\* CountMismatch(commitments, blobs) for every declared hash list.
C4_CountMismatchForEveryHashList ==
    (checked /\ Viol2) =>
        cres = Err("CountMismatchKzgsBlobs", Len(wrap.BlobKzgs), Len(wrap.Blobs))

\* C4: commitment and blob counts that differ give CountMismatch(commitments,
\* blobs) for every declared hash list of at most MaxBlobsPerTx hashes,
\* whether the hashes match the commitments or not.
C4_CountMismatchWithinLimit ==
    (checked /\ Viol2 /\ Len(hashesOf) <= MaxBlobsPerTx) =>
        cres = Err("CountMismatchKzgsBlobs", Len(wrap.BlobKzgs), Len(wrap.Blobs))

\* 2 commitments, 3 blobs and 2 declared hashes that match the commitments
C4_Witness ==
    /\ checked /\ Len(wrap.BlobKzgs) = 2 /\ Len(wrap.Blobs) = 3
    /\ Len(hashesOf) = 2 /\ ~MismatchAt(1) /\ ~MismatchAt(2)
    /\ cres = Err("CountMismatchKzgsBlobs", 2, 3)

----------------------------------------------------------------------------
(* Specification of ComputeVersionedHash: called twice on one commitment *)

HashInputs ==
    {ZeroKzg, InfinityKzg, GeneratorKzg}
        \cup {OneHot(KZGCommitmentSize, p, v) : p \in 1..KZGCommitmentSize, v \in {1, 255}}

InitHash ==
    /\ hgiven \in HashInputs
    /\ hkzg = hgiven
    /\ hres = <<>> /\ hprev = <<>> /\ hcalls = 0
    /\ checkIdle /\ codecIdle /\ copyIdle /\ encIdle

\* h := kzg.ComputeVersionedHash(): the receiver is passed by value
CallComputeVersionedHash ==
    /\ hcalls < 2
    /\ hprev' = hres
    /\ hres' = ComputeVersionedHash(hkzg)
    /\ hcalls' = hcalls + 1
    /\ UNCHANGED <<hgiven, hkzg>>
    /\ UNCHANGED <<checkVars, codecVars, copyVars, encVars>>

NextHash == CallComputeVersionedHash

SpecHash == InitHash /\ [][NextHash]_vars

\* C7: the versioned hash of a 48-byte commitment is 32 bytes, its byte 0 is
\* the version tag 0x01 and its bytes 1..31 are those of the digest of the
\* commitment; a second call returns the same value, and the commitment is
\* as it was given.
C7_VersionedHash ==
    hcalls >= 1 =>
        /\ Len(hkzg) = KZGCommitmentSize
        /\ Len(hres) = HashLength
        /\ hres[1] = 1
        /\ \A i \in 2..HashLength : hres[i] = Keccak256Hash(hgiven)[i]
        /\ hcalls = 2 => hres = hprev
        /\ hkzg = hgiven

\* a commitment whose digest does not begin with the version tag was hashed
C7_Witness ==
    /\ hcalls = 2 /\ hgiven = GeneratorKzg
    /\ Keccak256Hash(hgiven)[1] # 1 /\ hres[1] = 1

----------------------------------------------------------------------------
(* codec.DecodingReader: the stream and the number of bytes consumed *)

NewReader(buf) == [buf |-> buf, i |-> 0]

Scope(dr) == Len(dr.buf) - dr.i

\* dr.Read(p) for len(p) = n: nothing is read when fewer than n bytes remain
drRead(dr, n) ==
    IF dr.i + n > Len(dr.buf)
    THEN [err |-> TRUE, bytes |-> <<>>, dr |-> dr]
    ELSE [err |-> FALSE, bytes |-> SubSeq(dr.buf, dr.i + 1, dr.i + n),
          dr |-> [dr EXCEPT !.i = dr.i + n]]

\* dr.List for elements of a fixed size: the count is the scope divided by
\* the element size, and is tested against the limit before any element
drList(dr, elemSize, limit) ==
    IF Scope(dr) % elemSize # 0 THEN [err |-> TRUE, length |-> 0]
    ELSE IF Scope(dr) \div elemSize > limit THEN [err |-> TRUE, length |-> 0]
    ELSE [err |-> FALSE, length |-> Scope(dr) \div elemSize]

----------------------------------------------------------------------------
(* KZGCommitment *)

\* func (p *KZGCommitment) Deserialize(dr *codec.DecodingReader) error
KZGCommitmentDeserialize(p, dr) ==
    LET r == drRead(dr, KZGCommitmentSize)
    IN  [val |-> IF r.err THEN p ELSE r.bytes, dr |-> r.dr, err |-> r.err]

\* func (p *KZGCommitment) Serialize(w *codec.EncodingWriter) error
KZGCommitmentSerialize(p) == SubSeq(p, 1, Len(p))

\* func (KZGCommitment) ByteLength() uint64
KZGCommitmentByteLength(p) == 48

----------------------------------------------------------------------------
(* Field elements and Blob.  A []BLSFieldElement is its backing array arr    *)
(* (cap = Len(arr)) and its length len; the nil slice has neither.          *)

NilSlice == [arr |-> <<>>, len |-> 0]

\* the elements a slice holds
Content(sl) == SubSeq(sl.arr, 1, sl.len)

\* the read loop of ReadFieldElements, from element i on
RECURSIVE readLoop(_, _, _, _)
readLoop(dr, arr, i, length) ==
    IF i > length THEN [arr |-> arr, dr |-> dr, err |-> FALSE]
    ELSE LET r == drRead(dr, BLSFieldElementSize)
         IN  IF r.err THEN [arr |-> arr, dr |-> r.dr, err |-> TRUE]
             ELSE readLoop(r.dr, [arr EXCEPT ![i] = r.bytes], i + 1, length)

\* the space is re-used when available, else allocated
resize(elems, length) ==
    IF elems.len # length
    THEN IF Len(elems.arr) >= length
         THEN [elems EXCEPT !.len = length]
         ELSE [arr |-> [i \in 1..length |-> ZeroFr], len |-> length]
    ELSE elems

\* an element that is not below the modulus is refused
ReadFieldElements_RangeChecked(dr, elems, length) ==
    LET sl == resize(elems, length)
        r == readLoop(dr, sl.arr, 1, length)
    IN  [elems |-> [sl EXCEPT !.arr = r.arr], dr |-> r.dr,
         err |-> r.err \/ \E i \in 1..length : ~FrFrom32(r.arr[i])]

\* func ReadFieldElements(dr, elems *[]BLSFieldElement, length uint64) error
ReadFieldElements(dr, elems, length) ==
    LET sl == resize(elems, length)
        r == readLoop(dr, sl.arr, 1, length)
    IN  [elems |-> [sl EXCEPT !.arr = r.arr], dr |-> r.dr, err |-> r.err]

\* func WriteFieldElements(ew *codec.EncodingWriter, elems []BLSFieldElement) error
WriteFieldElements(elems) == Flatten(elems)

\* func (blob *Blob) Deserialize(dr *codec.DecodingReader) error
BlobDeserialize(blob, dr) == ReadFieldElements(dr, blob, FieldElementsPerBlob)

\* func (blob Blob) Serialize(w *codec.EncodingWriter) error
BlobSerialize(blob) == WriteFieldElements(blob)

\* func (blob Blob) ByteLength() (out uint64)
BlobByteLength(blob) == FieldElementsPerBlob * 32

----------------------------------------------------------------------------
(* BlobKzgs and Blobs *)

\* the elements dr.List adds and decodes, n of them
RECURSIVE kzgsLoop(_, _, _)
kzgsLoop(li, dr, n) ==
    IF n = 0 THEN [val |-> li, dr |-> dr, err |-> FALSE]
    ELSE LET r == KZGCommitmentDeserialize(ZeroKzg, dr)
         IN  IF r.err THEN [val |-> Append(li, r.val), dr |-> r.dr, err |-> TRUE]
             ELSE kzgsLoop(Append(li, r.val), r.dr, n - 1)

\* func (li *BlobKzgs) Deserialize(dr *codec.DecodingReader) error
BlobKzgsDeserialize(li, dr) ==
    LET h == drList(dr, 48, MAX_TX_WRAP_KZG_COMMITMENTS)
    IN  IF h.err THEN [val |-> li, dr |-> dr, err |-> TRUE]
        ELSE kzgsLoop(li, dr, h.length)

\* func (li BlobKzgs) Serialize(w *codec.EncodingWriter) error
BlobKzgsSerialize(li) ==
    Flatten([i \in 1..Len(li) |-> KZGCommitmentSerialize(li[i])])

\* func (li BlobKzgs) ByteLength() uint64
BlobKzgsByteLength(li) == Len(li) * 48

RECURSIVE blobsLoop(_, _, _)
blobsLoop(a, dr, n) ==
    IF n = 0 THEN [val |-> a, dr |-> dr, err |-> FALSE]
    ELSE LET r == BlobDeserialize(NilSlice, dr)
         IN  IF r.err THEN [val |-> Append(a, Content(r.elems)), dr |-> r.dr, err |-> TRUE]
             ELSE blobsLoop(Append(a, Content(r.elems)), r.dr, n - 1)

\* func (a *Blobs) Deserialize(dr *codec.DecodingReader) error
BlobsDeserialize(a, dr) ==
    LET h == drList(dr, FieldElementsPerBlob * 32, LIMIT_BLOBS_PER_TX)
    IN  IF h.err THEN [val |-> a, dr |-> dr, err |-> TRUE]
        ELSE blobsLoop(a, dr, h.length)

\* func (a Blobs) Serialize(w *codec.EncodingWriter) error
BlobsSerialize(a) == Flatten([i \in 1..Len(a) |-> BlobSerialize(a[i])])

\* func (a Blobs) ByteLength() (out uint64)
BlobsByteLength(a) == Len(a) * FieldElementsPerBlob * 32

----------------------------------------------------------------------------
(* Specification of the codec: values are serialized to a stream, and the   *)
(* stream is deserialized into one destination, any number of times         *)

Kinds == {"KZGCommitment", "Blob", "BlobKzgs", "Blobs"}

CodecScalars == {ZeroFr, ModulusMinusOneFr, ModulusFr}

\* Blob is a slice type: besides the blobs of FieldElementsPerBlob scalars it
\* holds Blob{} and the blobs of any other length
ShortBlobs == {[i \in 1..k |-> ModulusFr] :
                k \in (0..FieldElementsPerBlob + 1) \ {FieldElementsPerBlob}}

SrcValues(kind) ==
    CASE kind = "KZGCommitment" -> {ZeroKzg, InfinityKzg, GeneratorKzg, MarkKzg}
      [] kind = "Blob" -> [1..FieldElementsPerBlob -> CodecScalars] \cup ShortBlobs
      [] kind = "BlobKzgs" -> SeqsUpTo(CheckKzgs, MaxLen)
      [] kind = "Blobs" -> SeqsUpTo(CheckBlobs \cup {<<>>}, MaxLen)

\* the zero value of each type: the destination of a first decode
Fresh(kind) ==
    CASE kind = "KZGCommitment" -> ZeroKzg
      [] kind = "Blob" -> NilSlice
      [] kind = "BlobKzgs" -> <<>>
      [] kind = "Blobs" -> <<>>

\* destinations that held something before: slices of len l and cap c
UsedBlobSlices ==
    {[arr |-> [i \in 1..lc[2] |-> MarkFr], len |-> lc[1]] :
        lc \in {x \in (0..FieldElementsPerBlob + 1) \X (1..FieldElementsPerBlob + 1) :
                    x[1] <= x[2]}}

DstValues(kind) ==
    {Fresh(kind)} \cup
    CASE kind = "KZGCommitment" -> {MarkKzg}
      [] kind = "Blob" -> UsedBlobSlices
      [] kind = "BlobKzgs" -> {<<MarkKzg>>}
      [] kind = "Blobs" -> {<<GoodBlob>>}

InitCodec ==
    /\ ckind \in Kinds
    /\ dst \in DstValues(ckind)
    /\ csrc = <<>> /\ wire = <<>>
    /\ derr = FALSE /\ lastOp = "init" /\ dstWasFresh = FALSE
    /\ hashIdle /\ checkIdle /\ copyIdle /\ encIdle

\* x.Serialize(w), w a writer over an empty buffer
Serialize(kind, x) ==
    CASE kind = "KZGCommitment" -> KZGCommitmentSerialize(x)
      [] kind = "Blob" -> BlobSerialize(x)
      [] kind = "BlobKzgs" -> BlobKzgsSerialize(x)
      [] kind = "Blobs" -> BlobsSerialize(x)

\* x.ByteLength()
ByteLength(kind, x) ==
    CASE kind = "KZGCommitment" -> KZGCommitmentByteLength(x)
      [] kind = "Blob" -> BlobByteLength(x)
      [] kind = "BlobKzgs" -> BlobKzgsByteLength(x)
      [] kind = "Blobs" -> BlobsByteLength(x)

encoded(x) ==
    /\ csrc' = x
    /\ wire' = Serialize(ckind, x)
    /\ lastOp' = "encode"
    /\ UNCHANGED <<ckind, dst, derr, dstWasFresh>>
    /\ UNCHANGED <<hashVars, checkVars, copyVars, encVars>>

SerializeKZGCommitment ==
    ckind = "KZGCommitment" /\ \E x \in SrcValues("KZGCommitment") : encoded(x)

SerializeBlob == ckind = "Blob" /\ \E x \in SrcValues("Blob") : encoded(x)

SerializeBlobKzgs == ckind = "BlobKzgs" /\ \E x \in SrcValues("BlobKzgs") : encoded(x)

SerializeBlobs == ckind = "Blobs" /\ \E x \in SrcValues("Blobs") : encoded(x)

decoded(val, err) ==
    /\ dst' = val
    /\ derr' = err
    /\ dstWasFresh' = (dst = Fresh(ckind))
    /\ lastOp' = "decode"
    /\ UNCHANGED <<ckind, csrc, wire>>
    /\ UNCHANGED <<hashVars, checkVars, copyVars, encVars>>

\* dst.Deserialize(dr), dr a reader over the stream last written
DeserializeKZGCommitment ==
    /\ ckind = "KZGCommitment" /\ lastOp # "init"
    /\ LET r == KZGCommitmentDeserialize(dst, NewReader(wire))
       IN  decoded(r.val, r.err)

DeserializeBlob ==
    /\ ckind = "Blob" /\ lastOp # "init"
    /\ LET r == BlobDeserialize(dst, NewReader(wire))
       IN  decoded(r.elems, r.err)

\* the destination lists grow by what is decoded: the model stops decoding
\* when a list would grow beyond MaxLen + 1 elements
DeserializeBlobKzgs ==
    /\ ckind = "BlobKzgs" /\ lastOp # "init"
    /\ Len(dst) + Len(wire) \div 48 <= MaxLen + 1
    /\ LET r == BlobKzgsDeserialize(dst, NewReader(wire))
       IN  decoded(r.val, r.err)

DeserializeBlobs ==
    /\ ckind = "Blobs" /\ lastOp # "init"
    /\ Len(dst) + Len(wire) \div (FieldElementsPerBlob * 32) <= MaxLen + 1
    /\ LET r == BlobsDeserialize(dst, NewReader(wire))
       IN  decoded(r.val, r.err)

NextCodec ==
    \/ SerializeKZGCommitment \/ SerializeBlob
    \/ SerializeBlobKzgs \/ SerializeBlobs
    \/ DeserializeKZGCommitment \/ DeserializeBlob
    \/ DeserializeBlobKzgs \/ DeserializeBlobs

SpecCodec == InitCodec /\ [][NextCodec]_vars

\* a Blob of exactly FieldElementsPerBlob scalars; a list of such blobs
WellFormed(kind, x) ==
    CASE kind = "Blob" -> Len(x) = FieldElementsPerBlob
      [] kind = "Blobs" -> \A i \in 1..Len(x) : Len(x[i]) = FieldElementsPerBlob
      [] OTHER -> TRUE

\* the logical content of the destination
DstValue == IF ckind = "Blob" THEN Content(dst) ELSE dst

\* the stream was written from csrc and has just been decoded
roundTrip == lastOp = "decode" /\ WellFormed(ckind, csrc)

\* C5: decoding the bytes of encode(x) into a fresh destination succeeds and
\* yields x, element for element, for every Commitment, every Blob of
\* FieldElementsPerBlob scalars and every list of commitments or of such
\* blobs; scalars that are not below the modulus included.
C5_RoundTripIntoFresh ==
    (roundTrip /\ dstWasFresh) => (~derr /\ DstValue = csrc)

\* a list of MaxLen blobs, one with a scalar equal to the modulus, came back
C5_Witness ==
    /\ roundTrip /\ dstWasFresh /\ ckind = "Blobs"
    /\ Len(csrc) = MaxLen /\ \E i \in 1..Len(csrc) : csrc[i] = BadBlob
    /\ dst = csrc

\* C6 as stated: the number of bytes Serialize writes is ByteLength, for
\* every value of the four types.
C6_EncodedLengthIsByteLength ==
    lastOp = "encode" => Len(wire) = ByteLength(ckind, csrc)

\* C10 as stated: after a successful decode the destination holds exactly
\* the value the stream carries, whatever it held before.
C10_DecodeReplacesContent ==
    (roundTrip /\ ~derr) => DstValue = csrc

----------------------------------------------------------------------------
(* The copies.  mem is the heap: mem[p] is the backing array at address p.  *)
(* A slice is [ptr, len]; ptr = 0 is the nil slice.  The backing array of a *)
(* Blob holds scalars, that of a BlobKzgs holds commitments (arrays are     *)
(* values) and that of a Blobs holds the slice headers of its blobs.        *)

NilHdr == [ptr |-> 0, len |-> 0]

\* make([]T, len(elems)) filled with elems: a new backing array
alloc(m, elems) ==
    [mem |-> Append(m, elems), val |-> [ptr |-> Len(m) + 1, len |-> Len(elems)]]

\* the elements of the slice sl in heap m
elemsOf(m, sl) == IF sl.ptr = 0 THEN <<>> ELSE SubSeq(m[sl.ptr], 1, sl.len)

\* func (blob Blob) copy() Blob
BlobCopy(m, blob) == alloc(m, elemsOf(m, blob))

\* func (li BlobKzgs) copy() BlobKzgs
BlobKzgsCopy(m, li) == alloc(m, elemsOf(m, li))

\* for i, bl := range blobs { cpy[i] = bl.copy() }, from element i on
RECURSIVE blobsCopyLoop(_, _, _, _)
blobsCopyLoop(m, blobs, cpy, i) ==
    IF i > blobs.len THEN [mem |-> m, val |-> cpy]
    ELSE LET c == BlobCopy(m, m[blobs.ptr][i])
         IN  blobsCopyLoop([c.mem EXCEPT ![cpy.ptr][i] = c.val], blobs, cpy, i + 1)

\* copy(cpy, blobs): the headers are copied, the scalars are shared
BlobsCopy_Shallow(m, blobs) == alloc(m, elemsOf(m, blobs))

\* func (blobs Blobs) copy() Blobs
BlobsCopy(m, blobs) ==
    LET cpy == alloc(m, [i \in 1..blobs.len |-> NilHdr])
    IN  blobsCopyLoop(cpy.mem, blobs, cpy.val, 1)

\* func (b *BlobTxWrapData) copy() TxWrapData
WrapDataCopy(m, b) ==
    LET k == BlobKzgsCopy(m, b.BlobKzgs)
        bl == BlobsCopy(k.mem, b.Blobs)
    IN  [mem |-> bl.mem, val |-> [BlobKzgs |-> k.val, Blobs |-> bl.val]]

\* the value of a wrap data: its commitments and the scalars of its blobs
ValueOf(m, b) ==
    [BlobKzgs |-> elemsOf(m, b.BlobKzgs),
     Blobs |-> [i \in 1..b.Blobs.len |-> elemsOf(m, m[b.Blobs.ptr][i])]]

\* the addresses of the backing arrays a wrap data reaches
AddrsOf(m, b) ==
    ({b.BlobKzgs.ptr, b.Blobs.ptr}
        \cup {m[b.Blobs.ptr][i].ptr : i \in 1..b.Blobs.len}) \ {0}

\* a wrap data built in an empty heap: n commitments and k blobs, each blob
\* in a backing array of its own
RECURSIVE buildBlobs(_, _, _)
buildBlobs(m, hdrs, k) ==
    IF k = 0 THEN [mem |-> m, val |-> hdrs]
    ELSE LET b == alloc(m, IF k % 2 = 1 THEN GoodBlob ELSE BadBlob)
         IN  buildBlobs(b.mem, <<b.val>> \o hdrs, k - 1)

buildWrapData(n, k) ==
    LET kz == alloc(<<>>, [i \in 1..n |-> IF i % 2 = 1 THEN GeneratorKzg ELSE ZeroKzg])
        bs == buildBlobs(kz.mem, <<>>, k)
        li == alloc(bs.mem, bs.val)
    IN  [mem |-> li.mem, val |-> [BlobKzgs |-> kz.val, Blobs |-> li.val]]

InitCopy ==
    /\ \E n \in 0..MaxLen, k \in 0..MaxLen :
        LET w == buildWrapData(n, k)
        IN  /\ mem = w.mem
            /\ orig = w.val
            /\ expOrig = ValueOf(w.mem, w.val)
    /\ clone = [BlobKzgs |-> NilHdr, Blobs |-> NilHdr]
    /\ expClone = [BlobKzgs |-> <<>>, Blobs |-> <<>>]
    /\ writes = 0 /\ copied = FALSE
    /\ hashIdle /\ checkIdle /\ codecIdle /\ encIdle

copyFrame == UNCHANGED <<hashVars, checkVars, codecVars, encVars>>

\* clone := orig.copy()
copy ==
    /\ ~copied
    /\ LET c == WrapDataCopy(mem, orig)
       IN  /\ mem' = c.mem
           /\ clone' = c.val
    /\ expClone' = expOrig
    /\ copied' = TRUE
    /\ UNCHANGED <<orig, expOrig, writes>>
    /\ copyFrame

objOf(side) == IF side = "orig" THEN orig ELSE clone

\* a write to one side changes the expected value of that side only
expect(side, newOrig, newClone) ==
    /\ expOrig' = IF side = "orig" THEN newOrig ELSE expOrig
    /\ expClone' = IF side = "clone" THEN newClone ELSE expClone

written ==
    /\ writes' = writes + 1
    /\ UNCHANGED <<orig, clone, copied>>
    /\ copyFrame

\* x.Blobs[i][j] = MarkFr
writeScalar ==
    /\ copied /\ writes < MaxWrites
    /\ \E side \in {"orig", "clone"} :
        LET x == objOf(side)
        IN  \E i \in 1..x.Blobs.len :
                LET bl == mem[x.Blobs.ptr][i]
                IN  \E j \in 1..bl.len :
                        LET setj(v) == [v EXCEPT !.Blobs[i][j] = MarkFr]
                        IN  /\ mem' = [mem EXCEPT ![bl.ptr][j] = MarkFr]
                            /\ expect(side, setj(expOrig), setj(expClone))
    /\ written

\* x.BlobKzgs[i] = MarkKzg
writeCommitment ==
    /\ copied /\ writes < MaxWrites
    /\ \E side \in {"orig", "clone"} :
        LET x == objOf(side)
        IN  \E i \in 1..x.BlobKzgs.len :
                LET seti(v) == [v EXCEPT !.BlobKzgs[i] = MarkKzg]
                IN  /\ mem' = [mem EXCEPT ![x.BlobKzgs.ptr][i] = MarkKzg]
                    /\ expect(side, seti(expOrig), seti(expClone))
    /\ written

\* x.Blobs[i] = make(Blob, FieldElementsPerBlob)
writeSlot ==
    /\ copied /\ writes < MaxWrites
    /\ \E side \in {"orig", "clone"} :
        LET x == objOf(side)
        IN  \E i \in 1..x.Blobs.len :
                LET nb == alloc(mem, [j \in 1..FieldElementsPerBlob |-> ZeroFr])
                    seti(v) == [v EXCEPT !.Blobs[i] =
                                    [j \in 1..FieldElementsPerBlob |-> ZeroFr]]
                IN  /\ mem' = [nb.mem EXCEPT ![x.Blobs.ptr][i] = nb.val]
                    /\ expect(side, seti(expOrig), seti(expClone))
    /\ written

NextCopy == copy \/ writeScalar \/ writeCommitment \/ writeSlot

SpecCopy == InitCopy /\ [][NextCopy]_vars

\* C8: the clone equals the original when it is made and shares no backing
\* array with it at any level; after any writes to scalars, commitments and
\* list slots of either, each holds what was written to it and nothing of
\* what was written to the other.
C8_CloneIsIndependent ==
    copied =>
        /\ writes = 0 => ValueOf(mem, clone) = ValueOf(mem, orig)
        /\ AddrsOf(mem, orig) \cap AddrsOf(mem, clone) = {}
        /\ ValueOf(mem, orig) = expOrig
        /\ ValueOf(mem, clone) = expClone

\* a scalar of the clone and a commitment of the original were written, and
\* the two values differ in exactly these
C8_Witness ==
    /\ copied /\ writes = 2 /\ orig.Blobs.len = MaxLen /\ orig.BlobKzgs.len >= 1
    /\ ValueOf(mem, clone).Blobs[1][1] = MarkFr
    /\ ValueOf(mem, orig).Blobs[1][1] # MarkFr
    /\ ValueOf(mem, orig).BlobKzgs[1] = MarkKzg
    /\ ValueOf(mem, clone).BlobKzgs[1] # MarkKzg

----------------------------------------------------------------------------
(* encodeTyped *)

\* types.BlobTxType, the type byte of blob transactions
BlobTxType == 5

\* a uint32 offset, little-endian
Uint32LE(n) ==
    <<n % 256, (n \div 256) % 256, (n \div 65536) % 256, (n \div 16777216) % 256>>

\* SignedBlobTx.Serialize: the transaction's own encoding, here the number
\* of its versioned hashes followed by the hashes
SignedBlobTxSerialize(tx) ==
    <<Len(tx.BlobVersionedHashes)>> \o Flatten(tx.BlobVersionedHashes)

\* w.Container over three fields of variable size: one offset for each, from
\* the lengths of the fields before it, then the fields in order
Container(a, b, c) ==
    Uint32LE(12) \o Uint32LE(12 + Len(a)) \o Uint32LE(12 + Len(a) + Len(b))
        \o a \o b \o c

\* func (txw *BlobTxWrapper) Serialize(w *codec.EncodingWriter) error
BlobTxWrapperSerialize(txw) ==
    Container(SignedBlobTxSerialize(txw.Tx), BlobKzgsSerialize(txw.BlobKzgs),
              BlobsSerialize(txw.Blobs))

\* EncodeSSZ(w, obj): obj.Serialize on a writer over w
EncodeSSZ(obj) == BlobTxWrapperSerialize(obj)

EncodeTxDatas ==
    [type : {SignedBlobTx},
     BlobVersionedHashes : SeqsUpTo({ComputeVersionedHash(GeneratorKzg), WrongHash}, MaxLen)]
        \cup [type : {"LegacyTx", "AccessListTx", "DynamicFeeTx"},
              BlobVersionedHashes : {<<>>}]

\* wfail: the call of w.Write that fails (0: none)
InitEncode ==
    /\ etx \in EncodeTxDatas
    /\ ewrap \in WrapDatas
    /\ wfail \in 0..2
    /\ eout = <<>> /\ eerr = NoError /\ epc = "start"
    /\ hashIdle /\ checkIdle /\ codecIdle /\ copyIdle

\* func (b *BlobTxWrapData) encodeTyped(w io.Writer, txdata TxData) error
encodeTyped ==
    /\ epc = "start"
    /\ IF wfail = 1
       THEN /\ eout' = eout
            /\ eerr' = Err("WriteFailed", 0, 0)
       ELSE IF etx.type # SignedBlobTx
       THEN /\ eout' = eout \o <<BlobTxType>>
            /\ eerr' = Err("NotBlobTx", 0, 0)
       ELSE IF wfail = 2
       THEN /\ eout' = eout \o <<BlobTxType>>
            /\ eerr' = Err("WriteFailed", 0, 0)
       ELSE LET wrapped == [Tx |-> etx, BlobKzgs |-> ewrap.BlobKzgs,
                            Blobs |-> ewrap.Blobs]
            IN  /\ eout' = eout \o <<BlobTxType>> \o EncodeSSZ(wrapped)
                /\ eerr' = NoError
    /\ epc' = "done"
    /\ UNCHANGED <<etx, ewrap, wfail>>
    /\ UNCHANGED <<hashVars, checkVars, codecVars, copyVars>>

NextEncode == encodeTyped

SpecEncode == InitEncode /\ [][NextEncode]_vars

\* C9 as stated: with a writer that does not fail, a blob transaction gives
\* the type byte followed by the container encoding of (transaction,
\* commitments, blobs); any other variant gives an error and nothing is
\* written.
C9_EncodeTypedOutput ==
    (epc = "done" /\ wfail = 0) =>
        IF etx.type = SignedBlobTx
        THEN /\ eerr = NoError
             /\ eout = <<BlobTxType>> \o
                    Container(SignedBlobTxSerialize(etx),
                              BlobKzgsSerialize(ewrap.BlobKzgs),
                              BlobsSerialize(ewrap.Blobs))
        ELSE /\ eerr # NoError
             /\ eout = <<>>

====
